---- MODULE Spec2Model ----
(***************************************************************************)
(* Credential lifecycle manager of claude-code-sdk-ts: the Auth class      *)
(* (src/auth/auth.ts, repeated in src/fluent.ts), the token endpoint       *)
(* client (src/auth/anthropic.ts) and the credential schema.               *)
(*                                                                         *)
(* One credentials path is modelled.  Every async method is cut at its     *)
(* awaits: each action is one continuation of the JavaScript event loop,   *)
(* so the interleavings of the model are the interleavings of the tasks.   *)
(***************************************************************************)
EXTENDS Integers, FiniteSets, Sequences, TLC

(***************************************************************************)
(* Bounds of the model.                                                    *)
(***************************************************************************)
NumTasks == 2        \* concurrent callers on the credentials path
MaxCalls == 2        \* method calls started in one behaviour
MaxNow   == 1        \* last value (milliseconds) the clock reaches
MaxFlows == 1        \* login flows opened in one behaviour
MaxLogins == 2       \* flows returned by login() and setupAuth() together

Tasks == 1..NumTasks

(***************************************************************************)
(* JavaScript values.  A string field that is undefined is Undefined; a    *)
(* number field is a natural number, NaN, JSON null or a missing key.      *)
(***************************************************************************)
Undefined == "undefined"
NaN       == -1
Null      == -2
Missing   == -3

BufferMs  == 300000          \* the 5 minute buffer of isValid / getToken
Mode0600  == 384             \* 0o600
Mode0644  == 420             \* 0o666 of fs.writeFile under the umask 022

IsNumber(x) == x >= 0

\* `!s` of a string-or-undefined value: undefined and '' are falsy.
Falsy(s) == s = Undefined \/ s = ""

\* The value of `null` where a credential object is expected.
NoCreds == [type |-> "null", refresh |-> Undefined, access |-> Undefined,
            expires |-> Missing]

\* The object literal { type: 'oauth', refresh, access, expires }.
OAuth(r, a, e) == [type |-> "oauth", refresh |-> r, access |-> a, expires |-> e]

\* The object {} read as a credential: every key is missing.
EmptyObject == [type |-> Undefined, refresh |-> Undefined, access |-> Undefined,
                expires |-> Missing]

(***************************************************************************)
(* The text of the credentials file.  kind "object" is a parsable JSON     *)
(* object: wrapped says whether its fields sit under the "anthropic" key.  *)
(* kind "empty" is the zero-length file, kind "garbage" any other text     *)
(* JSON.parse rejects.                                                     *)
(***************************************************************************)
EmptyText   == [kind |-> "empty",   wrapped |-> FALSE, body |-> EmptyObject]
GarbageText == [kind |-> "garbage", wrapped |-> FALSE, body |-> EmptyObject]

\* JSON.stringify of a number: NaN is written as null.
StringifyNumber(x) == IF x = NaN THEN Null ELSE x

\* Variant of JSONstringify that always writes the "anthropic" wrapper.
JSONstringify_AlwaysWrapped(wrapped, c) ==
    [kind |-> "object", wrapped |-> TRUE,
     body |-> [type |-> c.type, refresh |-> c.refresh, access |-> c.access,
               expires |-> StringifyNumber(c.expires)]]

\* JSON.stringify(obj, null, 2) of a credential object, wrapped or not: keys
\* whose value is undefined are left out, so they read back as undefined.
JSONstringify(wrapped, c) ==
    [kind |-> "object", wrapped |-> wrapped,
     body |-> [type |-> c.type, refresh |-> c.refresh, access |-> c.access,
               expires |-> StringifyNumber(c.expires)]]

\* JSON.parse: does the text parse?
JSONparses(text) == text.kind = "object"

\* zod: OAuthCredentials.parse(data) succeeds.
SchemaAccepts(c) ==
    /\ c.type = "oauth"
    /\ c.refresh # Undefined
    /\ c.access # Undefined
    /\ IsNumber(c.expires)

\* validateCredentials(data): the parsed credential; NoCreds stands for the
\* ZodError it throws, which loadCredentials turns into null.
validateCredentials(c) == IF SchemaAccepts(c) THEN c ELSE NoCreds

(***************************************************************************)
(* The file system entry at credentialsPath.                               *)
(***************************************************************************)
NoFile == [exists |-> FALSE, ino |-> 0, mode |-> 0, text |-> EmptyText]

\* Variant of loadCredentials that returns the parsed object unvalidated.
loadCredentials_Unvalidated(f) ==
    IF ~f.exists THEN NoCreds
    ELSE IF ~JSONparses(f.text) THEN NoCreds
    ELSE f.text.body

\* Auth.loadCredentials: readFile, JSON.parse, `parsed.anthropic || parsed`,
\* validateCredentials; any exception gives null.
loadCredentials(f) ==
    IF ~f.exists THEN NoCreds
    ELSE IF ~JSONparses(f.text) THEN NoCreds
    ELSE validateCredentials(f.text.body)

\* Variant of NeedsRefresh that applies the buffer twice.
NeedsRefresh_DoubleBuffer(c, clock) == c.expires - BufferMs <= clock + BufferMs

\* `creds.expires <= Date.now() + 300000` of getToken.
NeedsRefresh(c, clock) == c.expires <= clock + BufferMs

(***************************************************************************)
(* The token endpoint.  A response is an HTTP error, a network failure or  *)
(* a success status with a JSON body; the tokens the provider issues carry *)
(* the number of the request, so two requests get two different tokens.    *)
(***************************************************************************)
AccessToken(n)  == "AT" \o ToString(n)
RefreshToken(n) == "RT" \o ToString(n)

Body(a, r, e) ==
    [status |-> "ok", access_token |-> a, refresh_token |-> r, expires_in |-> e]

\* What the provider puts into the body of a success: everything, or
\* everything but refresh_token, access_token or expires_in.
BodyShapes == {"complete", "no_refresh_token", "no_access_token",
               "no_expires_in"}

\* The body of the success answer to request n (one hour of lifetime).
SuccessBody(shape, n) ==
    Body(IF shape = "no_access_token" THEN Undefined ELSE AccessToken(n),
         IF shape = "no_refresh_token" THEN Undefined ELSE RefreshToken(n),
         IF shape = "no_expires_in" THEN Missing ELSE 3600)

\* The responses the token endpoint may give to request n: an HTTP error, a
\* network failure or a success.
Responses(shape, n) ==
    {[status |-> "http_error", access_token |-> Undefined,
      refresh_token |-> Undefined, expires_in |-> Missing],
     [status |-> "network_error", access_token |-> Undefined,
      refresh_token |-> Undefined, expires_in |-> Missing],
     SuccessBody(shape, n)}

\* `Date.now() + (data.expires_in * 1000)`: NaN when expires_in is missing.
ExpiresAt(clock, expires_in) ==
    IF expires_in = Missing THEN NaN ELSE clock + expires_in * 1000

\* AnthropicAuth.refresh after `response.ok`: the credential it returns.
refresh(refreshToken, resp, clock) ==
    OAuth(IF Falsy(resp.refresh_token) THEN refreshToken
                                       ELSE resp.refresh_token,
          resp.access_token,
          ExpiresAt(clock, resp.expires_in))

(***************************************************************************)
(* State.                                                                  *)
(***************************************************************************)
VARIABLES
    now,          \* the value of the last Date.now()
    file,         \* the file at credentialsPath
    calls,        \* each task's current (or last) method call: its Auth
                  \* options, its number (id), its position (pc), its locals (creds, newCreds,
                  \* existing, fd), what it observed and did (observed, sent,
                  \* wrote) and how it ended (result, error)
    overlap,      \* overlap[t]: tasks with a call running during t's call
    started,      \* method calls started so far
    issued,       \* success bodies the token endpoint has produced
    refreshSent,  \* refresh requests sent to the token endpoint
    provider,     \* the shape of the provider's success bodies
    flows,        \* the login flows opened: the options of their Auth
    input,        \* a function applied on its own: its arguments
    output        \* ... and what it returned or threw

vars == <<now, file, calls, overlap, started, issued, refreshSent, provider,
          flows, input, output>>

\* A task that has not called anything yet.
IdleCall ==
    [op |-> "none", id |-> 0, pc |-> "idle", autoRefresh |-> TRUE,
     overwriteExisting |-> FALSE, creds |-> NoCreds, observed |-> "nothing",
     newCreds |-> NoCreds, existing |-> NoCreds, fd |-> 0, sent |-> 0,
     wrote |-> FALSE, result |-> Undefined, error |-> "none", flow |-> 0,
     stored |-> Undefined, request |-> FALSE, verifier |-> <<>>,
     key |-> Undefined, info |-> NoCreds, data |-> <<>>]

\* new Auth(options) followed by the call of a method: the options are the
\* fields autoRefresh and overwriteExisting of the instance.
NewCall(op, autoRefresh, overwriteExisting) ==
    [IdleCall EXCEPT !.op = op, !.pc = "load", !.autoRefresh = autoRefresh,
                     !.overwriteExisting = overwriteExisting]

Running(c) == c.pc \notin {"idle", "done"}

\* The end of a call: its locals are gone.
Ended(c) ==
    [c EXCEPT !.pc = "done", !.creds = NoCreds, !.newCreds = NoCreds,
              !.existing = NoCreds, !.fd = 0, !.data = <<>>]

\* The call returns (resolves) with a value.
Return(c, value) == [Ended(c) EXCEPT !.result = value]

\* The call throws (rejects).
Throw(c, error) == [Ended(c) EXCEPT !.error = error]

InitExpires == {BufferMs + 1, 3600000}

InitTexts ==
    {EmptyText, GarbageText,
     [kind |-> "object", wrapped |-> FALSE, body |-> EmptyObject],
     [kind |-> "object", wrapped |-> FALSE,
      body |-> [EmptyObject EXCEPT !.type = "password"]],
     JSONstringify(TRUE, OAuth("RT0", Undefined, 3600000))}
    \cup {JSONstringify(TRUE, OAuth("RT0", "AT0", e)) : e \in InitExpires}
    \cup {JSONstringify(FALSE, OAuth("", "AT0", BufferMs))}

InitFiles ==
    {NoFile,
     [exists |-> TRUE, ino |-> 1, mode |-> Mode0644,
      text |-> JSONstringify(TRUE, OAuth("RT0", "AT0", BufferMs))]}
    \cup
    {[exists |-> TRUE, ino |-> 1, mode |-> Mode0600, text |-> x] :
        x \in InitTexts}

\* The login flows: flow f holds verifier f and the options of its Auth.
Flows == 1..MaxFlows

\* A flow is {url, complete}: the URL (endpoint and code_challenge), and
\* what the closure holds, the verifier and the options of its Auth.
NoFlow ==
    [open |-> FALSE, overwriteExisting |-> FALSE, url |-> <<>>,
     challenge |-> <<>>, verifier |-> <<>>]

\* A call that returned a value, a call that threw.
Returned(v) == [status |-> "returned", value |-> v, error |-> "none"]
Thrown(e)   == [status |-> "thrown", value |-> NoCreds, error |-> e]

NoResponse ==
    [status |-> "none", access_token |-> Undefined,
     refresh_token |-> Undefined, expires_in |-> Missing]

NoInput ==
    [fn |-> "none", on |-> "none", doc |-> NoCreds, wrapped |-> FALSE,
     file |-> NoFile, resp |-> NoResponse, refreshToken |-> Undefined,
     clock |-> 0, clientId |-> Undefined, random |-> 0]

NoOutput == [status |-> "none", value |-> NoCreds, error |-> "none"]

Init ==
    /\ now = 0
    /\ file \in InitFiles
    /\ calls = [t \in Tasks |-> IdleCall]
    /\ overlap = [t \in Tasks |-> {}]
    /\ started = 0
    /\ issued = 0
    /\ refreshSent = 0
    /\ provider \in BodyShapes
    /\ flows = [f \in Flows |-> NoFlow]
    /\ input = NoInput
    /\ output = NoOutput

\* Date.now(): the clock does not go back; what it did between two readings
\* is seen at the next reading.
DateNow == now' \in now..MaxNow

\* A task starts a method call: bookkeeping of which calls overlap it.
\* Tasks are numbered in the order of their first call.
Start(t, call) ==
    /\ ~Running(calls[t])
    /\ \A v \in Tasks : v < t => calls[v].op # "none"
    /\ started < MaxCalls
    /\ started' = started + 1
    /\ calls' = [calls EXCEPT ![t] = [call EXCEPT !.id = started']]
    /\ overlap' = [u \in Tasks |->
                     IF u = t THEN {v \in Tasks \ {t} : Running(calls[v])}
                     ELSE IF Running(calls[u]) THEN overlap[u] \cup {t}
                     ELSE overlap[u]]

(***************************************************************************)
(* Auth.getToken                                                           *)
(***************************************************************************)
GetTokenCall(t) ==
    \E autoRefresh \in BOOLEAN, overwriteExisting \in BOOLEAN :
        /\ Start(t, NewCall("getToken", autoRefresh, overwriteExisting))
        /\ UNCHANGED <<now, file, issued, refreshSent, provider,
                   flows, input, output>>

\* Variant of getTokenLoaded that refreshes whatever autoRefresh says.
getTokenLoaded_AlwaysRefresh(c, creds, clock) ==
    IF creds = NoCreds
    THEN Throw([c EXCEPT !.observed = "NoCredential"], "NotAuthenticated")
    ELSE IF NeedsRefresh(creds, clock)
         THEN [c EXCEPT !.pc = "refresh", !.creds = creds,
                        !.observed = "Stale", !.sent = @ + 1]
         ELSE Return([c EXCEPT !.creds = creds, !.observed = "ValidToken"],
                     creds.access)

\* The continuation after `await this.loadCredentials()`: no credential,
\* stale credential (refresh or throw) or valid credential.
getTokenLoaded(c, creds, clock) ==
    IF creds = NoCreds
    THEN Throw([c EXCEPT !.observed = "NoCredential"], "NotAuthenticated")
    ELSE IF NeedsRefresh(creds, clock)
         THEN IF c.autoRefresh
              THEN [c EXCEPT !.pc = "refresh", !.creds = creds,
                             !.observed = "Stale", !.sent = @ + 1]
              ELSE Throw([c EXCEPT !.creds = creds, !.observed = "Stale"],
                         "TokenExpired")
         ELSE Return([c EXCEPT !.creds = creds, !.observed = "ValidToken"],
                     creds.access)

GetTokenLoaded(t) ==
    /\ calls[t].op = "getToken"
    /\ calls[t].pc = "load"
    /\ DateNow
    /\ calls' = [calls EXCEPT
                    ![t] = getTokenLoaded(@, loadCredentials(file), now')]
    /\ refreshSent' = refreshSent + (calls'[t].sent - calls[t].sent)
    /\ UNCHANGED <<file, overlap, started, issued, provider,
                   flows, input, output>>

\* Variant of getTokenRefreshed that sends the refresh request again when
\* it failed.
getTokenRefreshed_Retry(c, resp, clock) ==
    IF resp.status # "ok" THEN [c EXCEPT !.sent = @ + 1]
    ELSE [c EXCEPT !.pc = "save_load",
                   !.newCreds = refresh(c.creds.refresh, resp, clock)]

\* Variant of getTokenRefreshed that saves the stored credential again when
\* the refresh request fails.
getTokenRefreshed_SaveStale(c, resp, clock) ==
    IF resp.status # "ok" THEN [c EXCEPT !.pc = "save_load",
                                         !.newCreds = c.creds]
    ELSE [c EXCEPT !.pc = "save_load",
                   !.newCreds = refresh(c.creds.refresh, resp, clock)]

\* Variant of getTokenRefreshed that falls back to the stale token when the
\* refresh request fails.
getTokenRefreshed_FallBack(c, resp, clock) ==
    IF resp.status # "ok" THEN Return(c, c.creds.access)
    ELSE [c EXCEPT !.pc = "save_load",
                   !.newCreds = refresh(c.creds.refresh, resp, clock)]

\* The continuation after `await AuthAnthropic.refresh(creds.refresh)`: the
\* request failed (ExchangeFailed), or newCreds is built and saveCredentials
\* starts with its own loadCredentials.
getTokenRefreshed(c, resp, clock) ==
    IF resp.status # "ok" THEN Throw(c, "ExchangeFailed")
    ELSE [c EXCEPT !.pc = "save_load",
                   !.newCreds = refresh(c.creds.refresh, resp, clock)]

GetTokenRefreshed(t) ==
    /\ calls[t].op = "getToken"
    /\ calls[t].pc = "refresh"
    /\ DateNow
    /\ \E resp \in Responses(provider, calls[t].id) :
        /\ calls' = [calls EXCEPT ![t] = getTokenRefreshed(@, resp, now')]
        /\ issued' = IF resp.status = "ok" THEN issued + 1 ELSE issued
    /\ UNCHANGED <<file, overlap, started, refreshSent, provider,
                   flows, input, output>>

(***************************************************************************)
(* Auth.saveCredentials, called by getToken and by login's complete        *)
(***************************************************************************)
\* Variant of saveChecked without the overwrite check.
saveChecked_Unchecked(c, existing) ==
    [c EXCEPT !.pc = "save_open", !.existing = existing]

\* The continuation after `await this.loadCredentials()` in saveCredentials:
\* the overwrite check.
saveChecked(c, existing) ==
    IF existing # NoCreds /\ ~c.overwriteExisting
    THEN Throw([c EXCEPT !.existing = existing], "Conflict")
    ELSE [c EXCEPT !.pc = "save_open", !.existing = existing]

SaveChecked(t) ==
    /\ calls[t].pc = "save_load"
    /\ calls' = [calls EXCEPT ![t] = saveChecked(@, loadCredentials(file))]
    /\ UNCHANGED <<now, file, overlap, started, issued, refreshSent, provider,
                   flows, input, output>>

\* fs.writeFile opens the path with flag 'w': an existing file is truncated
\* and keeps its mode, a missing one is created empty.
openTruncate(f) ==
    IF f.exists THEN [f EXCEPT !.text = EmptyText]
    ELSE [exists |-> TRUE, ino |-> f.ino + 1, mode |-> Mode0644,
          text |-> EmptyText]

SaveOpen(t) ==
    /\ calls[t].pc = "save_open"
    /\ file' = openTruncate(file)
    /\ calls' = [calls EXCEPT ![t] = [@ EXCEPT !.pc = "save_write",
                                                !.fd = file'.ino,
                                                !.wrote = TRUE]]
    /\ UNCHANGED <<now, overlap, started, issued, refreshSent, provider,
                   flows, input, output>>

\* Length of a text in keys written, to compare two texts.
TextLength(x) ==
    IF x.kind = "empty" THEN 0
    ELSE IF x.kind = "garbage" THEN 9
    ELSE (IF x.wrapped THEN 1 ELSE 0)
         + Cardinality({k \in {"type", "refresh", "access"} :
                           x.body[k] # Undefined})
         + (IF x.body.expires # Missing THEN 1 ELSE 0)

\* fs.writeFile writes the data at offset 0 of the file it opened.  The
\* path may have been unlinked since (the data goes to the orphaned file),
\* and another writer may have written since the truncation (a longer old
\* text keeps its tail and no longer parses).
writeData(f, fd, data) ==
    IF ~f.exists \/ f.ino # fd THEN f
    ELSE IF TextLength(data) >= TextLength(f.text)
         THEN [f EXCEPT !.text = data]
         ELSE [f EXCEPT !.text = GarbageText]

SaveWrite(t) ==
    /\ calls[t].pc = "save_write"
    /\ file' = writeData(file, calls[t].fd,
                          JSONstringify(TRUE, calls[t].newCreds))
    /\ calls' = [calls EXCEPT ![t] = [@ EXCEPT !.pc = "save_chmod"]]
    /\ UNCHANGED <<now, overlap, started, issued, refreshSent, provider,
                   flows, input, output>>

\* The continuation after `await fs.chmod(path, 0o600)`: saveCredentials
\* returns, and so does its caller (getToken with refreshed.access,
\* complete with nothing; inside a query, ensureAuthenticated returns);
\* chmod of a missing path throws ENOENT.
saveDone(c, f) ==
    IF ~f.exists THEN Throw(c, "ENOENT")
    ELSE IF c.op = "query"
         THEN [c EXCEPT !.pc = "authenticated",
                        !.stored = c.newCreds.access]
    ELSE IF c.op = "getToken"
         THEN Return([c EXCEPT !.stored = c.newCreds.access],
                     c.newCreds.access)
         ELSE Return([c EXCEPT !.stored = c.newCreds.access], Undefined)

SaveChmod(t) ==
    /\ calls[t].pc = "save_chmod"
    /\ file' = IF file.exists THEN [file EXCEPT !.mode = Mode0600] ELSE file
    /\ calls' = [calls EXCEPT ![t] = saveDone(@, file)]
    /\ UNCHANGED <<now, overlap, started, issued, refreshSent, provider,
                   flows, input, output>>

(***************************************************************************)
(* Auth.isValid                                                            *)
(***************************************************************************)
IsValidCall(t) ==
    /\ Start(t, NewCall("isValid", TRUE, FALSE))
    /\ UNCHANGED <<now, file, issued, refreshSent, provider,
                   flows, input, output>>

\* Variant of isValid that counts the boundary as valid.
isValid_Inclusive(creds, clock) ==
    IF creds = NoCreds THEN FALSE ELSE creds.expires >= clock + BufferMs

\* `if (!creds) return false; return creds.expires > Date.now() + 300000`
isValid(creds, clock) ==
    IF creds = NoCreds THEN FALSE ELSE creds.expires > clock + BufferMs

IsValidLoaded(t) ==
    /\ calls[t].op = "isValid"
    /\ calls[t].pc = "load"
    /\ DateNow
    /\ LET creds == loadCredentials(file) IN
       calls' = [calls EXCEPT ![t] =
                    Return([@ EXCEPT !.creds = creds,
                                     !.observed = IF file.exists THEN "File"
                                                  ELSE "NoFile"],
                           IF isValid(creds, now') THEN "true" ELSE "false")]
    /\ UNCHANGED <<file, overlap, started, issued, refreshSent, provider,
                   flows, input, output>>

(***************************************************************************)
(* Auth.logout                                                             *)
(***************************************************************************)
LogoutCall(t) ==
    /\ Start(t, [NewCall("logout", TRUE, FALSE) EXCEPT !.pc = "unlink"])
    /\ UNCHANGED <<now, file, issued, refreshSent, provider,
                   flows, input, output>>

\* Variant of unlink that empties the file and leaves it in place.
unlink_Truncate(f) ==
    [f EXCEPT !.text = EmptyText]

\* fs.unlink; ENOENT is swallowed by the catch.
unlink(f) ==
    [f EXCEPT !.exists = FALSE, !.mode = 0, !.text = EmptyText]

LogoutUnlinked(t) ==
    /\ calls[t].op = "logout"
    /\ calls[t].pc = "unlink"
    /\ file' = unlink(file)
    /\ calls' = [calls EXCEPT ![t] =
                    Return([@ EXCEPT !.wrote = file' # file], Undefined)]
    /\ UNCHANGED <<now, overlap, started, issued, refreshSent, provider,
                   flows, input, output>>

(***************************************************************************)
(* AnthropicAuth.authorize                                                 *)
(***************************************************************************)
\* Texts that end up in a URL are sequences of pieces, so that the
\* encoding of URLSearchParams can act on the characters it changes.
DEFAULT_CLIENT_ID == <<"9d1c250a-e61b-44d9-88ed-5944d1962f5e">>
REDIRECT_URI == <<"https", ":", "/", "/", "localhost", ":", "9000", "/",
                  "callback">>
SCOPES == << <<"org", ":", "create_api_key">>, <<"user", ":", "profile">>,
             <<"user", ":", "inference">> >>

\* Array.prototype.join(sep).
RECURSIVE Join(_, _)
Join(texts, sep) ==
    IF texts = <<>> THEN <<>>
    ELSE IF Len(texts) = 1 THEN Head(texts)
    ELSE Head(texts) \o <<sep>> \o Join(Tail(texts), sep)

\* URLSearchParams.toString() of one value: application/x-www-form-
\* urlencoded, a space becomes '+', ':' and '/' are percent-encoded.
FormEncode(text) ==
    [i \in DOMAIN text |->
        IF text[i] = ":" THEN "%3A"
        ELSE IF text[i] = "/" THEN "%2F"
        ELSE IF text[i] = " " THEN "+"
        ELSE text[i]]

\* `options.clientId || AnthropicAuth.DEFAULT_CLIENT_ID` of the constructor.
AnthropicAuth_clientId(clientId) ==
    IF Falsy(clientId) THEN DEFAULT_CLIENT_ID ELSE <<clientId>>

\* createHash('sha256').update(codeVerifier).digest('base64url').
S256(codeVerifier) == <<"sha256">> \o codeVerifier

\* generatePKCE(): the verifier is 32 random bytes in base64url, the
\* challenge is its SHA-256 digest.
generatePKCE(random) ==
    LET codeVerifier == <<"verifier", ToString(random)>> IN
    [codeVerifier |-> codeVerifier, codeChallenge |-> S256(codeVerifier)]

\* AnthropicAuth.authorize(): the URL as its endpoint and the encoded
\* pairs of its query in the order of insertion, and the verifier.
authorize(clientId, random, state) ==
    LET pkce == generatePKCE(random) IN
    [url |->
        [endpoint |-> <<"https", ":", "/", "/", "console.anthropic.com", "/",
                        "oauth", "/", "authorize">>,
         query |-> <<
            <<"response_type", FormEncode(<<"code">>)>>,
            <<"client_id", FormEncode(AnthropicAuth_clientId(clientId))>>,
            <<"redirect_uri", FormEncode(REDIRECT_URI)>>,
            <<"scope", FormEncode(Join(SCOPES, " "))>>,
            <<"code_challenge", FormEncode(pkce.codeChallenge)>>,
            <<"code_challenge_method", FormEncode(<<"S256">>)>>,
            <<"state", FormEncode(<<"state", ToString(state)>>)>> >>],
     codeVerifier |-> pkce.codeVerifier]

(***************************************************************************)
(* Auth.login and the completion closure it returns                        *)
(***************************************************************************)
\* Variant of exchange that takes expires_in for milliseconds.
exchange_Seconds(resp, clock) ==
    IF resp.status # "ok" THEN Thrown("ExchangeFailed")
    ELSE IF Falsy(resp.access_token) \/ Falsy(resp.refresh_token)
         THEN Thrown("ExchangeFailed")
         ELSE Returned(OAuth(resp.refresh_token, resp.access_token,
                             IF resp.expires_in = Missing THEN NaN
                             ELSE clock + resp.expires_in))

\* AnthropicAuth.exchange once the answer is there: ExchangeFailed for an
\* HTTP error, a network failure and a body without access_token or
\* refresh_token; there is no check of expires_in.
exchange(resp, clock) ==
    IF resp.status # "ok" THEN Thrown("ExchangeFailed")
    ELSE IF Falsy(resp.access_token) \/ Falsy(resp.refresh_token)
         THEN Thrown("ExchangeFailed")
         ELSE Returned(OAuth(resp.refresh_token, resp.access_token,
                             ExpiresAt(clock, resp.expires_in)))

\* The flow that login() returns: `const { url, verifier } = await
\* AuthAnthropic.authorize(mode)` with the random bytes of call f, and the
\* closure over verifier and this.
login(f, overwriteExisting) ==
    LET a == authorize(Undefined, f, f) IN
    [open |-> TRUE, overwriteExisting |-> overwriteExisting,
     url |-> a.url.endpoint, challenge |-> a.url.query[5][2],
     verifier |-> a.codeVerifier]

\* login(mode): authorize() makes the verifier, the closure captures it and
\* the Auth instance with its options.
LoginCall(f) ==
    /\ ~flows[f].open
    /\ \A g \in DOMAIN flows : g < f => flows[g].open
    /\ \E overwriteExisting \in BOOLEAN :
        flows' = [flows EXCEPT ![f] = login(f, overwriteExisting)]
    /\ UNCHANGED <<now, file, calls, overlap, started, issued, refreshSent,
                   provider, input, output>>

\* Variant of closureVerifier in which the verifier is kept in one place
\* for all flows: complete sends the verifier of the last login().
closureVerifier_Latest(fl, f) ==
    LET last == CHOOSE g \in DOMAIN fl :
                    /\ fl[g].url # <<>>
                    /\ \A h \in DOMAIN fl : fl[h].url # <<>> => h <= g
    IN fl[last].verifier

\* The verifier that `AuthAnthropic.exchange(code.trim(), verifier)` of
\* flow f sends: the constant of the login() call that made the closure.
closureVerifier(fl, f) ==
    fl[f].verifier

\* complete(code) of flow f: the exchange request goes out with the code
\* and the verifier of the flow, whatever was completed before.
CompleteCall(t, f) ==
    /\ flows[f].open
    /\ flows[f].url # <<>>
    /\ Start(t, [NewCall("complete", TRUE, flows[f].overwriteExisting)
                    EXCEPT !.pc = "exchange", !.flow = f, !.sent = 1,
                           !.verifier = closureVerifier(flows, f)])
    /\ UNCHANGED <<now, file, issued, refreshSent, provider,
                   flows, input, output>>

\* Variant of completeExchanged that answers a failed exchange with a
\* refresh request.
completeExchanged_Refresh(c, out) ==
    IF out.status = "thrown"
    THEN [c EXCEPT !.pc = "refresh", !.sent = @ + 1]
    ELSE [c EXCEPT !.pc = "save_load", !.observed = "Exchanged",
                   !.newCreds = out.value]

\* Variant of completeExchanged that goes on to save when the exchange
\* failed.
completeExchanged_SaveAnyway(c, out) ==
    [c EXCEPT !.pc = "save_load", !.observed = "Exchanged",
              !.newCreds = out.value]

\* The continuation after `await AuthAnthropic.exchange(code, verifier)`:
\* the failure leaves complete, or the credentials literal is built and
\* saveCredentials starts.
completeExchanged(c, out) ==
    IF out.status = "thrown" THEN Throw(c, out.error)
    ELSE [c EXCEPT !.pc = "save_load", !.observed = "Exchanged",
                   !.newCreds = out.value]

CompleteExchanged(t) ==
    /\ calls[t].op = "complete"
    /\ calls[t].pc = "exchange"
    /\ DateNow
    /\ \E resp \in Responses(provider, calls[t].id) :
        /\ calls' = [calls EXCEPT
                        ![t] = completeExchanged(@, exchange(resp, now'))]
        /\ issued' = IF resp.status = "ok" THEN issued + 1 ELSE issued
    /\ UNCHANGED <<file, overlap, started, refreshSent, provider,
                   flows, input, output>>

Next ==
    \E t \in Tasks :
        \/ GetTokenCall(t)
        \/ GetTokenLoaded(t)
        \/ GetTokenRefreshed(t)
        \/ SaveChecked(t)
        \/ SaveOpen(t)
        \/ SaveWrite(t)
        \/ SaveChmod(t)
        \/ IsValidCall(t)
        \/ IsValidLoaded(t)
        \/ LogoutCall(t)
        \/ LogoutUnlinked(t)

Spec == Init /\ [][Next]_vars

(***************************************************************************)
(* The store and the token client, one call at a time: the argument is     *)
(* drawn from a set, the function is applied once.                         *)
(***************************************************************************)
\* Objects handed to validateCredentials, documents found in the file.
Docs ==
    [type : {"oauth", "password", Undefined},
     refresh : {Undefined, "", "RT0"},
     access : {Undefined, "", "AT0"},
     expires : {Missing, Null, NaN, 0, 3600000}]

\* Answers of the token endpoint: failures, and success bodies with each
\* field present, empty or missing.
TokenResponses ==
    UNION {Responses(shape, 1) : shape \in BodyShapes}
    \cup {Body(a, r, e) : a \in {Undefined, "", "AT1"},
                          r \in {Undefined, "", "RT1"},
                          e \in {Missing, 0, 3600}}

\* Auth.loadCredentials of the variant without wrapper: the parsed object
\* itself goes to validateCredentials, so a wrapped document is rejected.
loadCredentialsPlain(f) ==
    IF ~f.exists THEN NoCreds
    ELSE IF ~JSONparses(f.text) THEN NoCreds
    ELSE IF f.text.wrapped THEN NoCreds
    ELSE validateCredentials(f.text.body)

\* AnthropicAuth.loadCredentials: null only for ENOENT; any other failure
\* is thrown again, and the parsed object is returned as it is.
AnthropicAuth_loadCredentials(f) ==
    IF ~f.exists THEN Returned(NoCreds)
    ELSE IF ~JSONparses(f.text) THEN Thrown("FailedToLoad")
    ELSE Returned(IF f.text.wrapped THEN EmptyObject ELSE f.text.body)

\* AuthFileStorage.get("anthropic"): file.json().catch(() => ({})) and the
\* entry under the provider key, unvalidated.
AuthFileStorage_get(f) ==
    IF ~f.exists THEN Returned(NoCreds)
    ELSE IF ~JSONparses(f.text) THEN Returned(NoCreds)
    ELSE Returned(IF f.text.wrapped THEN f.text.body ELSE NoCreds)

\* fs.chmod(path, 0o600).
chmod(f) == IF f.exists THEN [f EXCEPT !.mode = Mode0600] ELSE f

\* saveCredentials run to its end with nothing else running, once its
\* overwrite check has passed: writeFile, then chmod.
saveCredentials(f, wrapped, c) ==
    LET opened == openTruncate(f) IN
    chmod(writeData(opened, opened.ino, JSONstringify(wrapped, c)))

\* AnthropicAuth.storeCredentials: writeFile(path, text, { mode: 0o600 })
\* and nothing after it.  The mode is given to open(2), which uses it only
\* for a file it creates; the document is written without wrapper.
storeCredentials(f, c) ==
    LET opened == IF f.exists THEN openTruncate(f)
                  ELSE [openTruncate(f) EXCEPT !.mode = Mode0600] IN
    writeData(opened, opened.ino, JSONstringify(FALSE, c))

\* AuthFileStorage.set("anthropic", info): the entry is written under the
\* provider key with Bun.write, then chmod.
AuthFileStorage_set(f, c) ==
    LET opened == openTruncate(f) IN
    chmod(writeData(opened, opened.ino, JSONstringify(TRUE, c)))

\* `Date.now() > (credentials.expires_at - 300000)` of access().
isExpired(c, clock) == clock > c.expires - BufferMs

\* AnthropicAuth.access() up to its decision: the stored token without a
\* request, or a refresh request and the token of its answer.
access(c, clock) ==
    IF c = NoCreds THEN Thrown("NoStoredCredentials")
    ELSE IF ~isExpired(c, clock)
         THEN Returned([token |-> c.access, requests |-> 0])
         ELSE Returned([token |-> AccessToken(1), requests |-> 1])

\* Auth.getToken() with auto-refresh up to the same decision.
getTokenDecision(c, clock) ==
    LET call == getTokenLoaded(NewCall("getToken", TRUE, TRUE), c, clock) IN
    IF call.error # "none" THEN Thrown(call.error)
    ELSE IF call.pc = "refresh"
         THEN Returned([token |-> AccessToken(1), requests |-> call.sent])
         ELSE Returned([token |-> call.result, requests |-> call.sent])

\* AnthropicAuth.refresh as a whole: ExchangeFailed for an HTTP error and
\* for a network failure, the credential otherwise.
refreshCall(refreshToken, resp, clock) ==
    IF resp.status # "ok" THEN Thrown("ExchangeFailed")
    ELSE Returned(refresh(refreshToken, resp, clock))

PriorFiles ==
    {NoFile,
     [exists |-> TRUE, ino |-> 1, mode |-> Mode0644, text |-> GarbageText]}

Inputs ==
    {[NoInput EXCEPT !.fn = "validateCredentials", !.doc = d] : d \in Docs}
    \cup
    {[NoInput EXCEPT !.fn = "saveThenLoad", !.on = o, !.doc = d,
                     !.wrapped = w, !.file = f] :
        o \in {"Auth", "AuthPlain"}, d \in Docs, w \in BOOLEAN,
        f \in PriorFiles}
    \cup
    {[NoInput EXCEPT !.fn = "loadCredentials", !.on = o, !.file = f] :
        o \in {"Auth", "AuthPlain", "AnthropicAuth", "AuthFileStorage"},
        f \in InitFiles}
    \cup
    {[NoInput EXCEPT !.fn = "exchange", !.resp = r, !.clock = k] :
        r \in TokenResponses, k \in 0..MaxNow}
    \cup
    {[NoInput EXCEPT !.fn = "refresh", !.resp = r, !.clock = k,
                     !.refreshToken = "RT0"] :
        r \in TokenResponses, k \in 0..MaxNow}
    \cup
    {[NoInput EXCEPT !.fn = "access", !.on = o, !.clock = k,
                     !.doc = OAuth("RT0", "AT0", e)] :
        o \in {"Auth", "AnthropicAuth"}, k \in 0..MaxNow,
        e \in (BufferMs - 1)..(BufferMs + MaxNow + 1)}
    \cup
    {[NoInput EXCEPT !.fn = "authorize", !.clientId = c, !.random = r] :
        c \in {Undefined, "", "custom-client-id"}, r \in 0..MaxNow}
    \cup
    {[NoInput EXCEPT !.fn = "save", !.on = o, !.file = f,
                     !.doc = OAuth("RT1", "AT1", 3600000)] :
        o \in {"Auth", "AnthropicAuth", "AuthFileStorage"},
        f \in PriorFiles}

FunctionInit ==
    /\ now = 0
    /\ file = NoFile
    /\ calls = [t \in Tasks |-> IdleCall]
    /\ overlap = [t \in Tasks |-> {}]
    /\ started = 0
    /\ issued = 0
    /\ refreshSent = 0
    /\ provider = "complete"
    /\ flows = [f \in Flows |-> NoFlow]
    /\ input \in Inputs
    /\ output = NoOutput

Apply(fn, result) ==
    /\ input.fn = fn
    /\ output = NoOutput
    /\ output' = result
    /\ UNCHANGED <<now, file, calls, overlap, started, issued, refreshSent,
                   provider, flows, input>>

\* validateCredentials(data): the parsed object, or the ZodError.
Validate ==
    Apply("validateCredentials",
          IF validateCredentials(input.doc) = NoCreds THEN Thrown("ZodError")
          ELSE Returned(validateCredentials(input.doc)))

\* saveCredentials(c), then loadCredentials() of the same variant or of
\* the other one.
SaveThenLoad ==
    Apply("saveThenLoad",
          LET saved == saveCredentials(input.file, input.wrapped, input.doc)
          IN Returned(IF input.on = "Auth" THEN loadCredentials(saved)
                      ELSE loadCredentialsPlain(saved)))

\* The load of each store.
Load ==
    Apply("loadCredentials",
          IF input.on = "Auth" THEN Returned(loadCredentials(input.file))
          ELSE IF input.on = "AuthPlain"
               THEN Returned(loadCredentialsPlain(input.file))
          ELSE IF input.on = "AnthropicAuth"
               THEN AnthropicAuth_loadCredentials(input.file)
          ELSE AuthFileStorage_get(input.file))

Exchange == Apply("exchange", exchange(input.resp, input.clock))

Refresh ==
    Apply("refresh",
          refreshCall(input.refreshToken, input.resp, input.clock))

\* The save of each store, on the file found at the path.
Save ==
    /\ input.fn = "save"
    /\ output = NoOutput
    /\ file' = IF input.on = "Auth"
               THEN saveCredentials(input.file, TRUE, input.doc)
               ELSE IF input.on = "AnthropicAuth"
                    THEN storeCredentials(input.file, input.doc)
               ELSE AuthFileStorage_set(input.file, input.doc)
    /\ output' = Returned(NoCreds)
    /\ UNCHANGED <<now, calls, overlap, started, issued, refreshSent,
                   provider, flows, input>>

\* new AnthropicAuth({ clientId }).authorize().
Authorize ==
    Apply("authorize",
          Returned(authorize(input.clientId, input.random, input.random)))

\* The token accessor of each class on a stored credential.
Access ==
    Apply("access",
          IF input.on = "Auth" THEN getTokenDecision(input.doc, input.clock)
          ELSE access(input.doc, input.clock))

FunctionNext ==
    \/ Validate
    \/ Access
    \/ Authorize
    \/ SaveThenLoad
    \/ Load
    \/ Exchange
    \/ Refresh
    \/ Save

FunctionSpec == FunctionInit /\ [][FunctionNext]_vars

\* What a login finds at the path: nothing, a text that does not parse, or
\* a credential (valid, or stale in a file of mode 0644).
LoginFiles ==
    {f \in InitFiles :
        \/ ~f.exists
        \/ f.text = GarbageText
        \/ f.text = JSONstringify(TRUE, OAuth("RT0", "AT0", 3600000))
        \/ f.mode = Mode0644}

LoginInit == Init /\ file \in LoginFiles

\* The login flows on the credentials path, with logout.
LoginNext ==
    \/ \E f \in Flows : LoginCall(f)
    \/ \E t \in Tasks :
        \/ \E f \in Flows : CompleteCall(t, f)
        \/ CompleteExchanged(t)
        \/ SaveChecked(t)
        \/ SaveOpen(t)
        \/ SaveWrite(t)
        \/ SaveChmod(t)
        \/ LogoutCall(t)
        \/ LogoutUnlinked(t)

LoginSpec == LoginInit /\ [][LoginNext]_vars

\* Every operation of Auth on one path, called by one caller that awaits
\* each call before it makes the next.
(***************************************************************************)
(* QueryBuilder.query of a builder made with withAuth(...)                 *)
(***************************************************************************)
\* query(prompt) with authOptions set: the generator starts with
\* `await this.ensureAuthenticated(authOptions)`, which makes an Auth with
\* these options and awaits its isValid().
QueryCall(t) ==
    \E overwriteExisting \in BOOLEAN :
        /\ Start(t, NewCall("query", TRUE, overwriteExisting))
        /\ UNCHANGED <<now, file, issued, refreshSent, provider,
                       flows, input, output>>

\* Variant of ensureAuthenticatedChecked that returns whatever isValid()
\* said.
ensureAuthenticatedChecked_Skip(c, creds, clock) ==
    [c EXCEPT !.pc = "authenticated",
              !.observed = IF isValid(creds, clock) THEN "Valid"
                           ELSE "Invalid"]

\* The continuation after `await auth.isValid()`: ensureAuthenticated
\* returns when it is true and goes on to auth.login() otherwise.
ensureAuthenticatedChecked(c, creds, clock) ==
    IF isValid(creds, clock)
    THEN [c EXCEPT !.pc = "authenticated", !.observed = "Valid"]
    ELSE [c EXCEPT !.pc = "login", !.observed = "Invalid"]

QueryValidLoaded(t) ==
    /\ calls[t].op = "query"
    /\ calls[t].pc = "load"
    /\ DateNow
    /\ calls' = [calls EXCEPT
                    ![t] = ensureAuthenticatedChecked(@, loadCredentials(file),
                                                      now')]
    /\ UNCHANGED <<file, overlap, started, issued, refreshSent, provider,
                   flows, input, output>>

\* auth.login() returned the flow and the user typed the code:
\* `await complete(code)` sends the exchange request.
QueryCodeEntered(t) ==
    /\ calls[t].op = "query"
    /\ calls[t].pc = "login"
    /\ calls' = [calls EXCEPT ![t] = [@ EXCEPT !.pc = "exchange",
                                                !.sent = 1]]
    /\ UNCHANGED <<now, file, overlap, started, issued, refreshSent,
                   provider, flows, input, output>>

\* The answer of the exchange inside complete(code); a failure goes through
\* the catch of ensureAuthenticated, which throws it again.
QueryExchanged(t) ==
    /\ calls[t].op = "query"
    /\ calls[t].pc = "exchange"
    /\ DateNow
    /\ \E resp \in Responses(provider, calls[t].id) :
        /\ calls' = [calls EXCEPT
                        ![t] = completeExchanged(@, exchange(resp, now'))]
        /\ issued' = IF resp.status = "ok" THEN issued + 1 ELSE issued
    /\ UNCHANGED <<file, overlap, started, refreshSent, provider,
                   flows, input, output>>

\* `yield* this.queryRaw(prompt)`: the request of the query starts.
QueryRaw(t) ==
    /\ calls[t].op = "query"
    /\ calls[t].pc = "authenticated"
    /\ calls' = [calls EXCEPT ![t] = [@ EXCEPT !.pc = "request",
                                                !.request = TRUE]]
    /\ UNCHANGED <<now, file, overlap, started, issued, refreshSent,
                   provider, flows, input, output>>

\* The messages of the request have been delivered.
QueryDone(t) ==
    /\ calls[t].op = "query"
    /\ calls[t].pc = "request"
    /\ calls' = [calls EXCEPT ![t] = Return(@, "messages")]
    /\ UNCHANGED <<now, file, overlap, started, issued, refreshSent,
                   provider, flows, input, output>>

QueryInit == Init /\ file \in LoginFiles

\* Queries with authentication, next to logouts of the same path.
QueryNext ==
    \E t \in Tasks :
        \/ QueryCall(t)
        \/ QueryValidLoaded(t)
        \/ QueryCodeEntered(t)
        \/ QueryExchanged(t)
        \/ SaveChecked(t)
        \/ SaveOpen(t)
        \/ SaveWrite(t)
        \/ SaveChmod(t)
        \/ QueryRaw(t)
        \/ QueryDone(t)
        \/ LogoutCall(t)
        \/ LogoutUnlinked(t)

QuerySpec == QueryInit /\ [][QueryNext]_vars

(***************************************************************************)
(* setupAuth, the variant that hands the flow to the developer             *)
(***************************************************************************)
Logins == 1..MaxLogins

\* No call is running: the caller awaits each call before the next.
Sequential == \A u \in Tasks : ~Running(calls[u])

\* setupAuth(options): `new Auth(options)` and `await auth.isValid()`.
SetupAuthCall(t) ==
    \E overwriteExisting \in BOOLEAN :
        /\ Start(t, NewCall("setupAuth", TRUE, overwriteExisting))
        /\ UNCHANGED <<now, file, issued, refreshSent, provider,
                       flows, input, output>>

\* Variant of setupAuthChecked that looks at isValid() alone.
setupAuthChecked_IgnoreOverwrite(valid, overwriteExisting, f) ==
    IF valid
    THEN [NoFlow EXCEPT !.open = TRUE,
                        !.overwriteExisting = overwriteExisting]
    ELSE login(f, overwriteExisting)

\* `if (await auth.isValid() && !auth['overwriteExisting'])` the flow is
\* { url: '', complete: async () => { console.log(...) } }, and
\* auth.login() otherwise.
setupAuthChecked(valid, overwriteExisting, f) ==
    IF valid /\ ~overwriteExisting
    THEN [NoFlow EXCEPT !.open = TRUE,
                        !.overwriteExisting = overwriteExisting]
    ELSE login(f, overwriteExisting)

SetupAuthChecked(t, f) ==
    /\ calls[t].op = "setupAuth"
    /\ calls[t].pc = "load"
    /\ ~flows[f].open
    /\ \A g \in DOMAIN flows : g < f => flows[g].open
    /\ DateNow
    /\ LET valid == isValid(loadCredentials(file), now') IN
       /\ flows' = [flows EXCEPT
                       ![f] = setupAuthChecked(valid,
                                               calls[t].overwriteExisting, f)]
       /\ calls' = [calls EXCEPT
                       ![t] = Return([@ EXCEPT !.flow = f,
                                               !.observed =
                                                   IF valid THEN "Valid"
                                                   ELSE "Invalid"],
                                     Undefined)]
    /\ UNCHANGED <<file, overlap, started, issued, refreshSent, provider,
                   input, output>>

\* complete(code) of the flow without URL: it logs and returns.
CompleteNoop(t, f) ==
    /\ flows[f].open
    /\ flows[f].url = <<>>
    /\ Start(t, Return([NewCall("complete", TRUE,
                                flows[f].overwriteExisting)
                            EXCEPT !.flow = f],
                       Undefined))
    /\ UNCHANGED <<now, file, issued, refreshSent, provider,
                   flows, input, output>>

SetupInit ==
    /\ now = 0
    /\ file \in LoginFiles
    /\ calls = [t \in Tasks |-> IdleCall]
    /\ overlap = [t \in Tasks |-> {}]
    /\ started = 0
    /\ issued = 0
    /\ refreshSent = 0
    /\ provider = "complete"
    /\ flows = [f \in Logins |-> NoFlow]
    /\ input = NoInput
    /\ output = NoOutput

\* setupAuth() and login() calls that open flows, and the completions of
\* these flows in any order, one call after the other.
SetupNext ==
    \/ \E f \in Logins : LoginCall(f)
    \/ \E t \in Tasks :
        \/ Sequential /\ SetupAuthCall(t)
        \/ \E f \in Logins :
            \/ SetupAuthChecked(t, f)
            \/ Sequential /\ CompleteCall(t, f)
            \/ Sequential /\ CompleteNoop(t, f)
        \/ CompleteExchanged(t)
        \/ SaveChecked(t)
        \/ SaveOpen(t)
        \/ SaveWrite(t)
        \/ SaveChmod(t)

SetupSpec == SetupInit /\ [][SetupNext]_vars


AuthInit == Init /\ file \in LoginFiles

AuthNext ==
    \/ \E f \in Flows : LoginCall(f)
    \/ \E t \in Tasks :
        \/ Sequential /\ GetTokenCall(t)
        \/ Sequential /\ IsValidCall(t)
        \/ Sequential /\ LogoutCall(t)
        \/ \E f \in Flows : Sequential /\ CompleteCall(t, f)
        \/ GetTokenLoaded(t)
        \/ GetTokenRefreshed(t)
        \/ CompleteExchanged(t)
        \/ SaveChecked(t)
        \/ SaveOpen(t)
        \/ SaveWrite(t)
        \/ SaveChmod(t)
        \/ IsValidLoaded(t)
        \/ LogoutUnlinked(t)

AuthSpec == AuthInit /\ [][AuthNext]_vars

(***************************************************************************)
(* AuthFileStorage: one file with an entry for each provider               *)
(***************************************************************************)
Providers == {"anthropic", "github", "openai"}

\* The object in the file: the entry of each provider, NoCreds for a key
\* that is not there.
NoEntries == [k \in Providers |-> NoCreds]

StorageText(entries) == [kind |-> "object", entries |-> entries]

StorageInfos == {OAuth("RT1", "AT1", 3600000), OAuth("RT2", "AT2", 3600000)}

\* all(): `file.json().catch(() => ({}))`.
AuthFileStorage_all(f) ==
    IF ~f.exists \/ f.text.kind # "object" THEN NoEntries
    ELSE f.text.entries

\* `{ ...data, [key]: info }` of set, and `delete data[key]` of remove
\* (info is NoCreds).
setEntry(data, key, info) ==
    [data EXCEPT ![key] = info]

\* Bun.write(file, text): the file is created if it is missing and its
\* contents are replaced.
BunWrite(f, text) ==
    IF f.exists THEN [f EXCEPT !.text = text]
    ELSE [exists |-> TRUE, ino |-> f.ino + 1, mode |-> Mode0644,
          text |-> text]

\* set(key, info) up to `await this.all()`.
StorageSetCall(t) ==
    \E key \in Providers, info \in StorageInfos :
        /\ Start(t, [NewCall("set", TRUE, TRUE)
                        EXCEPT !.pc = "all", !.key = key, !.info = info])
        /\ UNCHANGED <<now, file, issued, refreshSent, provider,
                       flows, input, output>>

\* remove(key) up to `await this.all()`.
StorageRemoveCall(t) ==
    \E key \in Providers :
        /\ Start(t, [NewCall("remove", TRUE, TRUE)
                        EXCEPT !.pc = "all", !.key = key])
        /\ UNCHANGED <<now, file, issued, refreshSent, provider,
                       flows, input, output>>

\* The continuation after `await this.all()`: data is what the file held
\* then.
StorageAllRead(t) ==
    /\ calls[t].pc = "all"
    /\ calls' = [calls EXCEPT ![t] = [@ EXCEPT !.pc = "write",
                                                !.data =
                                                    AuthFileStorage_all(file)]]
    /\ UNCHANGED <<now, file, overlap, started, issued, refreshSent,
                   provider, flows, input, output>>

\* `await Bun.write(file, JSON.stringify({ ...data, [key]: info }))`.
StorageWritten(t) ==
    /\ calls[t].pc = "write"
    /\ file' = BunWrite(file, StorageText(setEntry(calls[t].data,
                                                    calls[t].key,
                                                    calls[t].info)))
    /\ calls' = [calls EXCEPT ![t] = [@ EXCEPT !.pc = "chmod",
                                                !.wrote = TRUE]]
    /\ UNCHANGED <<now, overlap, started, issued, refreshSent, provider,
                   flows, input, output>>

\* `await fs.chmod(file.name, 0o600)`, and the call returns.
StorageChmodDone(t) ==
    /\ calls[t].pc = "chmod"
    /\ file' = chmod(file)
    /\ calls' = [calls EXCEPT ![t] = Return(@, Undefined)]
    /\ UNCHANGED <<now, overlap, started, issued, refreshSent, provider,
                   flows, input, output>>

\* What is at the path before the first call: nothing, text that is not
\* JSON, or entries of one or two providers.
StorageFiles ==
    {NoFile,
     [exists |-> TRUE, ino |-> 1, mode |-> Mode0600,
      text |-> [kind |-> "garbage", entries |-> NoEntries]]}
    \cup
    {[exists |-> TRUE, ino |-> 1, mode |-> Mode0600,
      text |-> StorageText(e)] :
        e \in {[NoEntries EXCEPT !["github"] = OAuth("RT0", "AT0", 3600000)],
               [NoEntries EXCEPT !["github"] = OAuth("RT0", "AT0", 3600000),
                                 !["anthropic"] = OAuth("RT0", "AT0", 0)]}}

StorageInit ==
    /\ now = 0
    /\ file \in StorageFiles
    /\ calls = [t \in Tasks |-> IdleCall]
    /\ overlap = [t \in Tasks |-> {}]
    /\ started = 0
    /\ issued = 0
    /\ refreshSent = 0
    /\ provider = "complete"
    /\ flows = [f \in Flows |-> NoFlow]
    /\ input = NoInput
    /\ output = NoOutput

StorageNext ==
    \E t \in Tasks :
        \/ StorageSetCall(t)
        \/ StorageRemoveCall(t)
        \/ StorageAllRead(t)
        \/ StorageWritten(t)
        \/ StorageChmodDone(t)

StorageSpec == StorageInit /\ [][StorageNext]_vars

(***************************************************************************)
(* Vocabulary of the properties                                            *)
(***************************************************************************)
\* The file holds a complete, well-typed credential (wrapped or not).
HoldsCredential(f) ==
    /\ f.exists
    /\ f.text.kind = "object"
    /\ f.text.body.type = "oauth"
    /\ f.text.body.refresh # Undefined
    /\ f.text.body.access # Undefined
    /\ f.text.body.expires >= 0

\* The stored credential is in state ValidToken at the clock value.
StoredValid(f, clock) ==
    HoldsCredential(f) /\ f.text.body.expires > clock + 300000

\* The stored credential is in state ExpiringSoon or Expired.
StoredStale(f, clock) ==
    HoldsCredential(f) /\ f.text.body.expires <= clock + 300000

\* The calls of t and u ran at the same time for a while.
Overlapping(t, u) == t # u /\ u \in overlap[t] /\ t \in overlap[u]

\* No other call ran while the call of t did.
Solo(t) == overlap[t] = {}

\* The call is a getToken() that found a stale credential and has
\* auto-refresh enabled.
RefreshingCall(c) ==
    c.op = "getToken" /\ c.observed = "Stale" /\ c.autoRefresh

Done(c) == c.pc = "done"
Succeeded(c) == c.pc = "done" /\ c.error = "none"

\* Steps of task t, as action formulas.
LoadStep(t, op) ==
    calls[t].op = op /\ calls[t].pc = "load" /\ calls'[t].pc # "load"
ResponseStep(t) == calls[t].pc = "refresh" /\ calls'[t].pc # "refresh"
FinishStep(t) == Running(calls[t]) /\ calls'[t].pc = "done"

(***************************************************************************)
(* C1..C4: coalescing of concurrent refreshes, persistence of a refresh    *)
(***************************************************************************)
\* C1: two overlapping getToken() calls that both find the stale credential,
\* both with auto-refresh, send exactly one refresh request between them and
\* resolve to the same access token.
C1_OneRefreshForConcurrentCalls ==
    \A t, u \in Tasks :
        (Overlapping(t, u) /\ RefreshingCall(calls[t])
                           /\ RefreshingCall(calls[u]))
        => /\ calls[t].sent + calls[u].sent = 1
           /\ (Succeeded(calls[t]) /\ Succeeded(calls[u])
                 => calls[t].result = calls[u].result)

\* C2: at most one refresh request is in flight for the credentials path.
C2_AtMostOneRefreshInFlight ==
    Cardinality({t \in Tasks : calls[t].pc = "refresh"}) <= 1

\* C3: overlapping getToken() callers on a stale credential get one uniform
\* outcome: all succeed with the same token or all fail with the same error.
C3_UniformOutcome ==
    \A t, u \in Tasks :
        (Overlapping(t, u) /\ RefreshingCall(calls[t])
                           /\ RefreshingCall(calls[u])
                           /\ Done(calls[t]) /\ Done(calls[u]))
        => /\ calls[t].error = calls[u].error
           /\ calls[t].result = calls[u].result

\* C4: with auto-refresh, a getToken() on a stale credential whose refresh
\* request succeeds (complete body, no other call running) stores the
\* refreshed credential over the old one and returns the refreshed access
\* token, for either value of overwriteExisting.
C4_RefreshIsPersisted ==
    [][\A t \in Tasks :
        (/\ FinishStep(t)
         /\ RefreshingCall(calls[t])
         /\ calls[t].pc # "refresh"
         /\ SchemaAccepts(calls[t].newCreds)
         /\ Solo(t))
        => /\ calls'[t].error = "none"
           /\ calls'[t].result = calls[t].newCreds.access
           /\ loadCredentials(file') = calls[t].newCreds]_vars

(***************************************************************************)
(* C5: the overwrite policy of saveCredentials                             *)
(***************************************************************************)
\* C5: a save without overwrite permission that finds a schema-valid
\* credential at the path fails with Conflict and leaves the file as it is;
\* with overwriteExisting a save of a credential over an existing one
\* succeeds and a load after it returns the new credential (no other call
\* running meanwhile).
C5_OverwritePolicy ==
    [][\A t \in Tasks :
        /\ (/\ calls[t].pc = "save_load"
             /\ calls'[t].pc # "save_load"
             /\ HoldsCredential(file)
             /\ ~calls[t].overwriteExisting)
            => /\ calls'[t].pc = "done"
               /\ calls'[t].error = "Conflict"
               /\ ~calls'[t].wrote
               /\ file' = file
        /\ (/\ calls[t].pc = "save_chmod"
             /\ calls'[t].pc # "save_chmod"
             /\ calls[t].overwriteExisting
             /\ calls[t].existing # NoCreds
             /\ SchemaAccepts(calls[t].newCreds)
             /\ Solo(t))
            => /\ calls'[t].pc = "done"
               /\ calls'[t].error = "none"
               /\ HoldsCredential(file')
               /\ file'.text.body = calls[t].newCreds
               /\ loadCredentials(file') = calls[t].newCreds]_vars

\* One call was refused with Conflict and left the credential in place,
\* another replaced an existing credential with overwriteExisting.
C5_Witness ==
    \E t, u \in Tasks :
        /\ Done(calls[t]) /\ calls[t].error = "Conflict" /\ ~calls[t].wrote
        /\ HoldsCredential(file)
        /\ Succeeded(calls[u]) /\ calls[u].overwriteExisting
        /\ calls[u].observed = "Stale" /\ calls[u].wrote
        /\ file.text.body.access = calls[u].result
        /\ file.text.body.access # "AT0"

(***************************************************************************)
(* C6: isValid                                                             *)
(***************************************************************************)
\* C6: isValid() returns true exactly when the file holds a schema-valid
\* credential with expires > now + 300000; it returns false when
\* expires <= now + 300000 and when no credential can be loaded.
C6_IsValidIffBeyondBuffer ==
    [][\A t \in Tasks :
        LoadStep(t, "isValid")
        => /\ calls'[t].pc = "done"
           /\ calls'[t].error = "none"
           /\ calls'[t].result = IF StoredValid(file, now') THEN "true"
                                                           ELSE "false"
           /\ file' = file]_vars

\* One isValid() answered true, and a later one false at the exact boundary
\* expires = now + 300000.
C6_Witness ==
    \E t, u \in Tasks :
        /\ calls[t].op = "isValid" /\ Done(calls[t])
        /\ calls[t].result = "true"
        /\ calls[u].op = "isValid" /\ Done(calls[u])
        /\ calls[u].result = "false"
        /\ calls[u].id > calls[t].id
        /\ HoldsCredential(file)
        /\ file.text.body.expires = now + 300000
        /\ refreshSent = 0

(***************************************************************************)
(* C7..C10: the branches of getToken                                       *)
(***************************************************************************)
\* C7: in state ValidToken getToken() returns exactly the stored access
\* token, sends no refresh request and leaves the file unchanged, with
\* auto-refresh on or off.
C7_ValidTokenReturnedAsStored ==
    [][\A t \in Tasks :
        (LoadStep(t, "getToken") /\ StoredValid(file, now'))
        => /\ calls'[t].pc = "done"
           /\ calls'[t].error = "none"
           /\ calls'[t].result = file.text.body.access
           /\ calls'[t].sent = 0
           /\ ~calls'[t].wrote
           /\ refreshSent' = refreshSent
           /\ file' = file]_vars

\* A getToken() without auto-refresh returned the stored token of a valid
\* credential.
C7_Witness ==
    \E t \in Tasks :
        /\ calls[t].op = "getToken" /\ Succeeded(calls[t])
        /\ ~calls[t].autoRefresh
        /\ calls[t].observed = "ValidToken"
        /\ StoredValid(file, now)
        /\ calls[t].result = file.text.body.access
        /\ refreshSent = 0

\* C8: when no credential can be loaded (no file, unparsable text or a
\* document the schema rejects) getToken() fails with NotAuthenticated,
\* sends no request and does not create or change the file.
C8_NoCredentialNotAuthenticated ==
    [][\A t \in Tasks :
        (LoadStep(t, "getToken") /\ ~HoldsCredential(file))
        => /\ calls'[t].pc = "done"
           /\ calls'[t].error = "NotAuthenticated"
           /\ calls'[t].result = Undefined
           /\ calls'[t].sent = 0
           /\ ~calls'[t].wrote
           /\ refreshSent' = refreshSent
           /\ file' = file]_vars

\* A getToken() failed with NotAuthenticated on a file that parses but
\* holds only part of a credential.
C8_Witness ==
    \E t \in Tasks :
        /\ calls[t].op = "getToken" /\ Done(calls[t])
        /\ calls[t].error = "NotAuthenticated"
        /\ file.exists /\ file.text.kind = "object"
        /\ file.text.body.type = "oauth"
        /\ ~HoldsCredential(file)
        /\ refreshSent = 0

\* C9: on a stale credential (expires <= now + 300000) with auto-refresh
\* disabled getToken() fails with TokenExpired, sends no refresh request,
\* returns no token and leaves the file unchanged.
C9_StaleWithoutAutoRefresh ==
    [][\A t \in Tasks :
        (/\ LoadStep(t, "getToken")
         /\ StoredStale(file, now')
         /\ ~calls[t].autoRefresh)
        => /\ calls'[t].pc = "done"
           /\ calls'[t].error = "TokenExpired"
           /\ calls'[t].result = Undefined
           /\ calls'[t].sent = 0
           /\ ~calls'[t].wrote
           /\ refreshSent' = refreshSent
           /\ file' = file]_vars

\* A getToken() without auto-refresh failed with TokenExpired at the exact
\* boundary expires = now + 300000.
C9_Witness ==
    \E t \in Tasks :
        /\ calls[t].op = "getToken" /\ Done(calls[t])
        /\ ~calls[t].autoRefresh
        /\ calls[t].error = "TokenExpired"
        /\ StoredStale(file, now)
        /\ file.text.body.expires = now + 300000
        /\ now > 0
        /\ refreshSent = 0

\* C10: when the refresh request of getToken() fails (HTTP error or network
\* failure) the call fails with that failure, returns no token (not the
\* stale one either) and has not touched the file.
C10_RefreshFailurePropagates ==
    [][\A t \in Tasks :
        (ResponseStep(t) /\ issued' = issued)
        => /\ calls'[t].pc = "done"
           /\ calls'[t].error = "ExchangeFailed"
           /\ calls'[t].result = Undefined
           /\ ~calls'[t].wrote
           /\ file' = file]_vars

\* A getToken() sent its refresh request, the request failed, and the stale
\* credential is still what the file holds.
C10_Witness ==
    \E t \in Tasks :
        /\ calls[t].op = "getToken" /\ Done(calls[t])
        /\ calls[t].error = "ExchangeFailed"
        /\ calls[t].sent = 1
        /\ issued = 0
        /\ StoredStale(file, now)
        /\ file.text.body.access = "AT0"

(***************************************************************************)
(* C11, C12: the completion of a login flow                                *)
(***************************************************************************)
\* C11: complete(code) sends its exchange request before it writes
\* anything; it writes the file only after exchange returned a credential;
\* when exchange fails the call fails with ExchangeFailed and the file is
\* as it was.
C11_ExchangeBeforeSave ==
    [][\A t \in Tasks :
        /\ (calls[t].op = "complete" /\ calls[t].pc = "exchange"
                                     /\ calls'[t].pc # "exchange")
            => /\ calls[t].sent = 1
               /\ ~calls[t].wrote
               /\ file' = file
               /\ (issued' = issued
                     => /\ calls'[t].pc = "done"
                        /\ calls'[t].error = "ExchangeFailed"
                        /\ ~calls'[t].wrote)
        /\ (calls[t].op = "complete" /\ calls[t].pc \in {"save_open",
                                                         "save_write"})
            => /\ calls[t].observed = "Exchanged"
               /\ calls[t].newCreds # NoCreds
               /\ calls[t].newCreds.access = AccessToken(calls[t].id)]_vars

\* One complete() failed in its exchange and wrote nothing, another (later)
\* one exchanged and stored its credential.
C11_Witness ==
    \E t, u \in Tasks :
        /\ calls[t].op = "complete" /\ Done(calls[t])
        /\ calls[t].error = "ExchangeFailed" /\ ~calls[t].wrote
        /\ calls[u].op = "complete" /\ Succeeded(calls[u])
        /\ calls[u].observed = "Exchanged" /\ calls[u].wrote
        /\ calls[u].id > calls[t].id
        /\ HoldsCredential(file)
        /\ file.text.body.access = calls[u].stored
        /\ issued = 1

\* C12: of two complete() calls on one login flow, the second one started
\* after the first had ended, the second never succeeds in storing a token
\* other than the one the first stored.
C12_SecondCompleteStoresNothingNew ==
    \A t, u \in Tasks :
        (/\ calls[t].op = "complete" /\ calls[u].op = "complete"
         /\ calls[t].flow = calls[u].flow
         /\ calls[t].id < calls[u].id
         /\ ~Overlapping(t, u)
         /\ Succeeded(calls[t]) /\ Succeeded(calls[u]))
        => calls[u].stored = calls[t].stored

(***************************************************************************)
(* C13, C14: what the credentials file may hold                            *)
(***************************************************************************)
\* C13: no step of the program leaves a parsable document at the path that
\* is not a complete, well-typed credential: a partial credential is never
\* persisted, whatever the body of the token endpoint's success answer.
C13_NoPartialCredentialPersisted ==
    [][(/\ file'.exists
        /\ file'.text # file.text
        /\ file'.text.kind = "object")
       => HoldsCredential(file')]_vars

\* C14: whenever a step changes what a reader finds at the path, the reader
\* finds the complete new document of a save (or no file), never an empty
\* or cut document.
C14_ReaderSeesWholeDocument ==
    [][(/\ file'.exists
        /\ (file'.text # file.text \/ ~file.exists))
       => \E t \in Tasks :
             /\ calls[t].newCreds # NoCreds
             /\ file'.text = JSONstringify(TRUE, calls[t].newCreds)]_vars

(***************************************************************************)
(* C18: the refresh token after a refresh                                  *)
(***************************************************************************)
\* C18: when the refresh request of getToken() succeeds, the refresh token
\* of the new credential is the one in the response if the response has
\* one and the one sent otherwise, and it is a non-empty string; so is the
\* refresh token in the file when the call has stored it and returned.
C18_RefreshTokenKept ==
    [][\A t \in Tasks :
        /\ (calls[t].op = "getToken" /\ ResponseStep(t)
                                     /\ issued' = issued + 1)
            => LET body == SuccessBody(provider, calls[t].id) IN
               /\ calls'[t].newCreds.refresh =
                     IF Falsy(body.refresh_token) THEN calls[t].creds.refresh
                                                  ELSE body.refresh_token
               /\ ~Falsy(calls'[t].newCreds.refresh)
        /\ (calls[t].op = "getToken" /\ FinishStep(t) /\ Solo(t)
                                     /\ calls[t].pc = "save_chmod"
                                     /\ calls'[t].error = "none")
            => /\ file'.text.kind = "object"
               /\ ~Falsy(file'.text.body.refresh)]_vars

C16_LoadNeverThrows ==
    (/\ input.fn = "loadCredentials"
     /\ output # NoOutput
     /\ ~HoldsCredential(input.file))
    => output = Returned(NoCreds)

\* C17: validateCredentials accepts a document exactly when type is
\* 'oauth', refresh and access are non-empty strings and expires is a
\* finite number.
C17_ValidationExact ==
    (input.fn = "validateCredentials" /\ output # NoOutput)
    => (output.status = "returned"
          <=> /\ input.doc.type = "oauth"
              /\ ~Falsy(input.doc.refresh)
              /\ ~Falsy(input.doc.access)
              /\ input.doc.expires >= 0)

(***************************************************************************)
(* C19, C20: the failure contract of the token client                      *)
(***************************************************************************)
\* C19: exchange fails with ExchangeFailed whenever the status is not a
\* success or the body lacks access_token, refresh_token or expires_in; a
\* credential it returns expires at now + expires_in * 1000.
C19_ExchangeFailureContract ==
    (input.fn = "exchange" /\ output # NoOutput)
    => IF \/ input.resp.status # "ok"
          \/ input.resp.access_token = Undefined
          \/ input.resp.refresh_token = Undefined
          \/ input.resp.expires_in = Missing
       THEN output = Thrown("ExchangeFailed")
       ELSE output.status = "returned"
            => output.value.expires
                 = input.clock + input.resp.expires_in * 1000

\* C20: refresh fails with ExchangeFailed whenever the status is not a
\* success, the request fails at network level or the body lacks
\* access_token or expires_in.
C20_RefreshFailureContract ==
    (/\ input.fn = "refresh"
     /\ output # NoOutput
     /\ \/ input.resp.status # "ok"
        \/ input.resp.access_token = Undefined
        \/ input.resp.expires_in = Missing)
    => output = Thrown("ExchangeFailed")

(***************************************************************************)
(* C21: no retry                                                           *)
(***************************************************************************)
\* C21: a call of getToken() or complete(code) sends at most one request to
\* the token endpoint; once the request is answered the call sends no
\* other, and a failed request ends the call.
C21_NoRetry ==
    [][\A t \in Tasks :
        /\ calls'[t].sent <= 1
        /\ (calls[t].pc \in {"refresh", "exchange"} /\ calls'[t] # calls[t])
            => /\ calls'[t].pc \notin {"refresh", "exchange"}
               /\ calls'[t].sent = calls[t].sent
               /\ refreshSent' = refreshSent
               /\ (calls'[t].error # "none" => calls'[t].pc = "done")
               /\ (issued' = issued => calls'[t].error = "ExchangeFailed")]_vars

\* A getToken() and a complete() have each sent one request, seen it fail
\* and ended with ExchangeFailed.
C21_Witness ==
    \E t, u \in Tasks :
        /\ calls[t].op = "getToken" /\ Done(calls[t])
        /\ calls[t].error = "ExchangeFailed" /\ calls[t].sent = 1
        /\ calls[u].op = "complete" /\ Done(calls[u])
        /\ calls[u].error = "ExchangeFailed" /\ calls[u].sent = 1
        /\ refreshSent = 1
        /\ issued = 0

(***************************************************************************)
(* C22: logout                                                             *)
(***************************************************************************)
\* C22: logout() ends without error and leaves no file at the path: a load
\* then gives null, isValid() is false at every clock value and getToken()
\* fails with NotAuthenticated; without a file it changes nothing, and a
\* second unlink changes nothing more.
C22_LogoutIdempotent ==
    [][\A t \in Tasks :
        (calls[t].op = "logout" /\ calls[t].pc = "unlink"
                                /\ calls'[t].pc = "done")
        => /\ calls'[t].error = "none"
           /\ ~file'.exists
           /\ loadCredentials(file') = NoCreds
           /\ \A k \in 0..MaxNow : ~isValid(loadCredentials(file'), k)
           /\ getTokenLoaded(NewCall("getToken", TRUE, FALSE),
                             loadCredentials(file'), now).error
                 = "NotAuthenticated"
           /\ (~file.exists => file' = file)
           /\ unlink(file') = file']_vars

\* A logout() deleted the file that held a credential, and a second
\* logout() after it found no file and changed nothing.
C22_Witness ==
    \E t, u \in Tasks :
        /\ calls[t].op = "logout" /\ Succeeded(calls[t]) /\ calls[t].wrote
        /\ calls[u].op = "logout" /\ Succeeded(calls[u]) /\ ~calls[u].wrote
        /\ calls[u].id > calls[t].id
        /\ ~file.exists
        /\ file.ino = 1

(***************************************************************************)
(* C23: the mode of the file after a save                                  *)
(***************************************************************************)
\* C23: after a save that completed, the credentials file has mode 0600,
\* also when it existed before the save with a broader mode.
C23_SavedFileOwnerOnly ==
    (input.fn = "save" /\ output.status = "returned")
    => (file.exists /\ file.mode = Mode0600)

C25_FreshLoginEndToEnd ==
    [][\A t \in Tasks :
        /\ (LoadStep(t, "isValid") /\ ~file.exists)
            => calls'[t].result = "false"
        /\ (calls[t].op = "complete" /\ calls[t].pc = "save_load"
                                     /\ calls'[t] # calls[t]
                                     /\ ~file.exists)
            => calls'[t].pc = "save_open"
        /\ (calls[t].op = "complete" /\ calls[t].pc = "save_chmod"
                                     /\ calls'[t] # calls[t]
                                     /\ provider = "complete")
            => /\ Succeeded(calls'[t])
               /\ \E k \in 0..now :
                    calls[t].newCreds
                      = OAuth(RefreshToken(calls[t].id),
                              AccessToken(calls[t].id), k + 3600000)
               /\ loadCredentials(file') = calls[t].newCreds
               /\ \A k \in now'..MaxNow :
                    isValid(loadCredentials(file'), k)]_vars

\* The first call was an isValid() that found no file and returned false;
\* the second was a complete(code) of a login without overwriteExisting,
\* after which the file holds the credential of the exchange.
C25_Witness ==
    \E t, u \in Tasks :
        /\ calls[t].op = "isValid" /\ Succeeded(calls[t])
        /\ calls[t].id = 1 /\ calls[t].observed = "NoFile"
        /\ calls[t].result = "false"
        /\ calls[u].op = "complete" /\ Succeeded(calls[u])
        /\ calls[u].id = 2 /\ ~calls[u].overwriteExisting
        /\ calls[u].stored = "AT2"
        /\ \E k \in 0..now :
             loadCredentials(file) = OAuth("RT2", "AT2", k + 3600000)
        /\ isValid(loadCredentials(file), now)
        /\ file.mode = Mode0600

(***************************************************************************)
(* C26: refresh on demand                                                  *)
(***************************************************************************)
\* C26: a refresh request is sent only by the step of a getToken() with
\* auto-refresh that found a stale credential, one request per such step;
\* a call of isValid(), complete(code) or logout() never waits for the
\* answer to a refresh request, and login() sends none.
C26_RefreshOnlyOnDemand ==
    [][/\ refreshSent' # refreshSent
           => /\ refreshSent' = refreshSent + 1
              /\ \E t \in Tasks :
                    /\ LoadStep(t, "getToken")
                    /\ calls[t].autoRefresh
                    /\ NeedsRefresh(loadCredentials(file), now')
                    /\ calls'[t].pc = "refresh"
       /\ \A t \in Tasks :
            calls'[t].pc = "refresh" => /\ calls'[t].op = "getToken"
                                        /\ calls'[t].sent = 1
       /\ (\A t \in Tasks : calls'[t].op # "getToken" \/ Done(calls'[t]))
           => \A t \in Tasks : calls'[t].pc # "refresh"]_vars

\* An isValid() found the stale credential and returned false without a
\* request; the getToken() after it sent the one refresh request there is.
C26_Witness ==
    \E t, u \in Tasks :
        /\ calls[t].op = "isValid" /\ Succeeded(calls[t])
        /\ calls[t].id = 1 /\ calls[t].observed = "File"
        /\ calls[t].result = "false" /\ calls[t].sent = 0
        /\ calls[u].op = "getToken" /\ Done(calls[u])
        /\ calls[u].id = 2 /\ calls[u].observed = "Stale"
        /\ calls[u].sent = 1
        /\ refreshSent = 1

(***************************************************************************)
(* C27: who changes the file                                               *)
(***************************************************************************)
\* C27: a step that changes the credentials file is a step of the save in
\* a getToken() whose refresh request was answered with a success, of the
\* save in complete(code), or of logout(); isValid() and login() leave the
\* file as it is.
C27_OnlyRefreshCompleteLogoutWrite ==
    [][/\ file' # file
           => \E t \in Tasks :
                /\ calls'[t] # calls[t]
                /\ \/ /\ calls[t].op = "getToken"
                      /\ calls[t].pc \in {"save_open", "save_write",
                                           "save_chmod"}
                      /\ calls[t].sent = 1
                      /\ \E k \in 0..now :
                            calls[t].newCreds
                              = refresh(calls[t].creds.refresh,
                                        SuccessBody(provider, calls[t].id), k)
                   \/ /\ calls[t].op = "complete"
                      /\ calls[t].pc \in {"save_open", "save_write",
                                           "save_chmod"}
                   \/ /\ calls[t].op = "logout"
                      /\ calls[t].pc = "unlink"
       /\ flows' # flows => file' = file
       /\ \A t \in Tasks :
            (calls'[t] # calls[t] /\ "isValid" \in {calls[t].op, calls'[t].op})
            => file' = file]_vars

\* A login() opened a flow and an isValid() returned, both over the file of
\* mode 0644 that was there at the start and that is still as it was.
C27_Witness ==
    /\ \E f \in Flows : flows[f].open
    /\ \E t \in Tasks :
         /\ calls[t].op = "isValid" /\ Succeeded(calls[t])
         /\ calls[t].observed = "File"
    /\ file = [exists |-> TRUE, ino |-> 1, mode |-> Mode0644,
               text |-> JSONstringify(TRUE, OAuth("RT0", "AT0", BufferMs))]
    /\ \A t \in Tasks : ~calls[t].wrote

(***************************************************************************)
(* C28: the authorization URL                                              *)
(***************************************************************************)
\* C28: authorize() returns a URL on https://claude.ai/oauth/authorize
\* whose query has code=true, response_type=code, the redirect_uri
\* https://console.anthropic.com/oauth/code/callback, the three scopes
\* joined by spaces, code_challenge_method=S256 and the configured client
\* id, or the default one when none is configured.
C28_AuthorizeUrl ==
    (input.fn = "authorize" /\ output # NoOutput
                            /\ input.clientId # "")
    => LET url == output.value.url
           Has(key, text) ==
               \E i \in DOMAIN url.query :
                   url.query[i] = <<key, FormEncode(text)>>
       IN /\ url.endpoint = <<"https", ":", "/", "/", "claude.ai", "/",
                              "oauth", "/", "authorize">>
          /\ Has("code", <<"true">>)
          /\ Has("response_type", <<"code">>)
          /\ Has("redirect_uri",
                 <<"https", ":", "/", "/", "console.anthropic.com", "/",
                   "oauth", "/", "code", "/", "callback">>)
          /\ Has("scope", <<"org", ":", "create_api_key", " ", "user", ":",
                            "profile", " ", "user", ":", "inference">>)
          /\ Has("code_challenge_method", <<"S256">>)
          /\ Has("client_id",
                 IF input.clientId = Undefined
                 THEN <<"9d1c250a-e61b-44d9-88ed-5944d1962f5e">>
                 ELSE <<input.clientId>>)

(***************************************************************************)
(* C30: the accessor and the validity check at the boundary                *)
(***************************************************************************)
\* C30: getToken() and access() return the stored token without a refresh
\* request exactly when isValid() is true, that is when
\* expires > now + 300000; at expires = now + 300000 both refresh.
C30_AccessorAgreesWithValidity ==
    (input.fn = "access" /\ output # NoOutput)
    => /\ output.status = "returned"
       /\ (output.value.requests = 0 /\ output.value.token = input.doc.access)
            <=> input.doc.expires > input.clock + BufferMs
       /\ (output.value.requests = 0)
            <=> isValid(input.doc, input.clock)

(***************************************************************************)
(* C31: concurrent saves under overwrite protection                        *)
(***************************************************************************)
\* C31: a step of a save without overwriteExisting never changes what a
\* load of the path returns once the path holds a credential: of
\* overlapping protected saves one writes and the others fail with
\* Conflict.
C31_ProtectedSaveNeverReplaces ==
    [][\A t \in Tasks :
        (/\ calls[t].pc \in {"save_open", "save_write", "save_chmod"}
         /\ ~calls[t].overwriteExisting
         /\ calls'[t] # calls[t]
         /\ loadCredentials(file) # NoCreds)
        => loadCredentials(file') = loadCredentials(file)]_vars

(***************************************************************************)
(* C32: the refresh token on disk after a rotation                         *)
(***************************************************************************)
\* C32: with a provider that puts a new refresh token into every success
\* answer, once every call has returned and one refresh request has been
\* answered with a success, a credential in the file carries the refresh
\* token of that answer (the last one issued).
C32_StoredRefreshTokenIsLatest ==
    \A t \in Tasks :
        (/\ \A u \in Tasks : ~Running(calls[u])
         /\ provider = "complete"
         /\ issued = 1
         /\ calls[t].op = "getToken"
         /\ calls[t].sent = 1
         /\ calls[t].error # "ExchangeFailed"
         /\ HoldsCredential(file))
        => file.text.body.refresh = RefreshToken(calls[t].id)

(***************************************************************************)
(* C33: the login sequence of ensureAuthenticated                          *)
(***************************************************************************)
\* C33: a query with default options that found isValid() false and whose
\* exchange the provider answered with a complete success, nothing else
\* running, does not end with an error: ensureAuthenticated returns, and
\* isValid() is true from then on.
C33_LoginSequenceSucceeds ==
    [][\A t \in Tasks :
        (/\ calls[t].op = "query"
         /\ ~calls[t].overwriteExisting
         /\ calls[t].observed = "Exchanged"
         /\ provider = "complete"
         /\ Solo(t)
         /\ calls[t].pc \in {"save_load", "save_open", "save_write",
                              "save_chmod"}
         /\ calls'[t] # calls[t])
        => /\ calls'[t].error = "none"
           /\ calls'[t].pc = "authenticated"
                => isValid(loadCredentials(file'), now')]_vars

(***************************************************************************)
(* C34: the mode of the file while it is being saved                       *)
(***************************************************************************)
\* C34: in no state does the file hold the document of a save that is
\* still running while its mode is broader than 0600.
C34_NewContentsNeverReadableByOthers ==
    \A t \in Tasks :
        (/\ Running(calls[t])
         /\ calls[t].newCreds # NoCreds
         /\ file.exists
         /\ file.text = JSONstringify(TRUE, calls[t].newCreds))
        => file.mode = Mode0600

(***************************************************************************)
(* C35: the flow that setupAuth returns                                    *)
(***************************************************************************)
\* C35: setupAuth returns the flow with the empty URL exactly when
\* isValid() is true and overwriteExisting is not set, and the flow of
\* login() otherwise; it changes neither the file nor the provider.  The
\* complete(code) of the flow with the empty URL sends no request, writes
\* nothing and returns without error.
C35_SetupAuthNoopFlow ==
    [][\A t \in Tasks :
        /\ LoadStep(t, "setupAuth")
            => /\ file' = file /\ issued' = issued
               /\ calls'[t].sent = 0
               /\ \E f \in Logins :
                    /\ ~flows[f].open /\ flows'[f].open
                    /\ calls'[t].flow = f
                    /\ flows'[f].url = <<>>
                         <=> /\ isValid(loadCredentials(file), now')
                             /\ ~calls[t].overwriteExisting
                    /\ flows'[f].url # <<>>
                         => flows'[f] = login(f, calls[t].overwriteExisting)
        /\ (/\ calls'[t] # calls[t]
            /\ calls'[t].op = "complete"
            /\ flows[calls'[t].flow].url = <<>>)
            => /\ Succeeded(calls'[t])
               /\ calls'[t].sent = 0 /\ ~calls'[t].wrote
               /\ file' = file /\ issued' = issued]_vars

\* A setupAuth() without overwriteExisting found the valid credential and
\* returned the flow with the empty URL; the complete(code) of that flow
\* returned, and the file is as it was.
C35_Witness ==
    \E t, u \in Tasks :
        /\ calls[t].op = "setupAuth" /\ Succeeded(calls[t])
        /\ calls[t].observed = "Valid" /\ ~calls[t].overwriteExisting
        /\ flows[calls[t].flow].open /\ flows[calls[t].flow].url = <<>>
        /\ calls[u].op = "complete" /\ Succeeded(calls[u])
        /\ calls[u].flow = calls[t].flow /\ calls[u].sent = 0
        /\ issued = 0
        /\ file.text = JSONstringify(TRUE, OAuth("RT0", "AT0", 3600000))

(***************************************************************************)
(* C36: the verifier of each flow                                          *)
(***************************************************************************)
\* C36: the exchange request of a complete(code) carries the verifier of
\* its own flow, the one whose SHA-256 challenge is in the URL that the
\* same login() returned, and the verifier of no other flow.
C36_OwnVerifier ==
    \A t \in Tasks :
        (calls[t].op = "complete" /\ calls[t].sent = 1)
        => LET f == calls[t].flow IN
           /\ calls[t].verifier # <<>>
           /\ calls[t].verifier = flows[f].verifier
           /\ S256(calls[t].verifier) = flows[f].challenge
           /\ \A g \in DOMAIN flows \ {f} :
                flows[g].url # <<>>
                => /\ calls[t].verifier # flows[g].verifier
                   /\ S256(calls[t].verifier) # flows[g].challenge

\* Two flows are open; the second one was completed first, the first one
\* after it, each with its own verifier.
C36_Witness ==
    /\ flows[1].url # <<>> /\ flows[2].url # <<>>
    /\ \E t, u \in Tasks :
         /\ calls[t].op = "complete" /\ calls[t].flow = 2
         /\ calls[t].sent = 1 /\ Done(calls[t])
         /\ calls[u].op = "complete" /\ calls[u].flow = 1
         /\ calls[u].sent = 1 /\ Done(calls[u])
         /\ calls[t].id < calls[u].id
         /\ calls[t].verifier # calls[u].verifier

(***************************************************************************)
(* C37: a refresh in flight across a logout                                *)
(***************************************************************************)
\* C37: a getToken() during which a logout() ran and returned does not
\* bring a credential back: while the store is absent, no step of that
\* getToken() makes a load of the path return a credential.
C37_NoWriteBackAfterLogout ==
    [][\A t \in Tasks :
        (/\ calls[t].op = "getToken"
         /\ calls'[t] # calls[t]
         /\ \E u \in overlap[t] :
                calls[u].op = "logout" /\ Succeeded(calls[u])
         /\ loadCredentials(file) = NoCreds)
        => loadCredentials(file') = NoCreds]_vars

(***************************************************************************)
(* C38: the overwrite check and the authorization code                     *)
(***************************************************************************)
\* C38: a complete(code) that fails with Conflict has sent no exchange
\* request, and the provider has issued no token pair for it.
C38_ConflictBeforeExchange ==
    \A t \in Tasks :
        (calls[t].op = "complete" /\ calls[t].error = "Conflict")
        => /\ calls[t].sent = 0
           /\ calls[t].observed # "Exchanged"

(***************************************************************************)
(* C39: the entries of the other providers                                 *)
(***************************************************************************)
\* C39: a step of set(k, v) or remove(k) changes the entry of k alone, and
\* when set(k1, v1) and set(k2, v2) with k1 # k2 have both returned and
\* nothing else was called, get(k1) = v1 and get(k2) = v2.
C39_OtherEntriesUntouched ==
    [][\A t \in Tasks :
        /\ (calls[t].pc = "write" /\ calls'[t].pc = "chmod")
            => \A k \in Providers \ {calls[t].key} :
                 AuthFileStorage_all(file')[k] = AuthFileStorage_all(file)[k]
        /\ \A u \in Tasks \ {t} :
             (/\ started' = 2
              /\ calls'[t].op = "set" /\ Succeeded(calls'[t])
              /\ calls'[u].op = "set" /\ Succeeded(calls'[u])
              /\ calls'[t].key # calls'[u].key)
             => AuthFileStorage_all(file')[calls'[t].key]
                  = calls'[t].info]_vars

====
